---- MODULE Spec2Model ----
(***************************************************************************)
(* Model of vessel_metrics/final_scripts/vessel_pipeline.py:               *)
(*   - get_pixel_size_from_dims, the calibration resolver (a pure          *)
(*     function, checked under SpecResolver);                              *)
(*   - format_sig, the 4-significant-digit formatter;                      *)
(*   - main, the linear pipeline with its single try/except (Spec).        *)
(*                                                                         *)
(* Numbers.  A Python float is modelled as a record [nan, v]: either the   *)
(* NaN value or an exact decimal fixed-point number v.  Every quantity has *)
(* a fixed decimal unit: pixel sizes and diameters are in 1/1000, the mean *)
(* pixel size in 1/10000, pixel counts in 1.  Because every unit is a      *)
(* power of ten, rounding to significant decimal digits acts on v alone.   *)
(***************************************************************************)
EXTENDS Integers, Sequences, FiniteSets, TLC

VARIABLES
    pc,           \* position of the control flow
    dims,         \* the calibration metadata handed to the resolver
    calib,        \* what get_pixel_size_from_dims did: a triple, or a raise
    measured,     \* what the measurement calls returned
    report,       \* the normalised values computed before the tables
    artifacts,    \* the files written so far, in the order written
    tables,       \* the rows of the two CSV files
    executed,     \* history: the steps completed so far
    exit_status   \* the process exit status once it has terminated

vars == <<pc, dims, calib, measured, report, artifacts, tables, executed, exit_status>>

----------------------------------------------------------------------------
(* Bounds of the model. *)

MaxDictLen == 2
MaxListLen == 3
MaxSegs == 3
MaxSid == 3

----------------------------------------------------------------------------
(* Floats. *)

Fin(n) == [nan |-> FALSE, v |-> n]
NaN == [nan |-> TRUE, v |-> 0]

\* 1.0 as a pixel size (unit 1/1000)
One == Fin(1000)

\* Python's x == 0 on a float (NaN == 0 is False)
EqZero(x) == ~x.nan /\ x.v = 0

\* x * y; the unit of the result is the product of the units
FMul(x, y) == IF x.nan \/ y.nan THEN NaN ELSE Fin(x.v * y.v)

----------------------------------------------------------------------------
(* Metadata values.                                                        *)
(*   num: an int or float of value v/1000                                  *)
(*   nan: the float NaN                                                    *)
(*   big: an int beyond the float range (float() raises OverflowError)     *)
(*   str: a string that float() parses to v/1000                           *)
(*   bad: None, an unparsable string, a list: float() raises               *)

Val(k, v) == [k |-> k, v |-> v]

MetaValues ==
    { Val("num", 0), Val("num", 300), Val("num", 500), Val("num", -500),
      Val("nan", 0), Val("big", 0), Val("str", 300), Val("bad", 0) }

\* isinstance(v, (int, float))
IsNumeric(val) == val.k \in {"num", "nan", "big"}

\* float(v): the converted value, or a raise
PyFloat(val) ==
    CASE val.k = "num" -> [ok |-> TRUE, f |-> Fin(val.v)]
      [] val.k = "nan" -> [ok |-> TRUE, f |-> NaN]
      [] val.k = "str" -> [ok |-> TRUE, f |-> Fin(val.v)]
      [] OTHER         -> [ok |-> FALSE, f |-> NaN]

----------------------------------------------------------------------------
(* Keys of a mapping: a string (its characters) or a non-string object. *)

StrKey(chars) == [str |-> TRUE, chars |-> chars]
NonStrKey == [str |-> FALSE, chars |-> <<>>]

KeyPhysicalSizeY == StrKey(<<"P","h","y","s","i","c","a","l","S","i","z","e","Y">>)
KeyPhysicalSizeX == StrKey(<<"P","h","y","s","i","c","a","l","S","i","z","e","X">>)
KeySpacingX == StrKey(<<"S","p","a","c","i","n","g","X">>)
KeyVoxelSizeY == StrKey(<<"v","o","x","e","l","S","i","z","e","Y">>)
KeySizeZ == StrKey(<<"S","i","z","e","Z">>)

MetaKeys ==
    { KeyPhysicalSizeY, KeyPhysicalSizeX, KeySpacingX, KeyVoxelSizeY, KeySizeZ,
      NonStrKey }

\* str.lower on one character
LowerChar(c) ==
    CASE c = "P" -> "p" [] c = "S" -> "s" [] c = "X" -> "x"
      [] c = "Y" -> "y" [] c = "Z" -> "z" [] OTHER -> c

\* str.lower
Lower(s) == [i \in 1..Len(s) |-> LowerChar(s[i])]

\* sub in s
Contains(sub, s) ==
    \E i \in 0..(Len(s) - Len(sub)) :
        \A j \in 1..Len(sub) : s[i + j] = sub[j]

\* 'physical' in kl or 'voxel' in kl or 'spacing' in kl
IsSizeKey(kl) ==
    \/ Contains(<<"p","h","y","s","i","c","a","l">>, kl)
    \/ Contains(<<"v","o","x","e","l">>, kl)
    \/ Contains(<<"s","p","a","c","i","n","g">>, kl)

----------------------------------------------------------------------------
(* The metadata: a mapping (its entries in iteration order), a list, tuple *)
(* or array (its elements; an element carries no key), or anything else.   *)

Entry(key, val) == [key |-> key, val |-> val]
Elem(val) == Entry(NonStrKey, val)

Dict(items) == [t |-> "dict", items |-> items]
List(items) == [t |-> "list", items |-> items]
Other == [t |-> "other", items |-> <<>>]

SeqsUpTo(S, n) == UNION { [1..k -> S] : k \in 0..n }

DistinctKeys(items) ==
    \A i, j \in 1..Len(items) : i # j => items[i].key # items[j].key

AllDicts ==
    { Dict(items) : items \in { s \in SeqsUpTo({ Entry(k, v) : k \in MetaKeys, v \in MetaValues }, MaxDictLen) : DistinctKeys(s) } }

AllLists ==
    { List(items) : items \in SeqsUpTo({ Elem(v) : v \in MetaValues }, MaxListLen) }

AllDims == AllDicts \cup AllLists \cup {Other}

----------------------------------------------------------------------------
(* get_pixel_size_from_dims. *)

UnitPixels == "pixels"
UnitMicrometers == "micrometers"

Returned(py, px, unit) == [raised |-> FALSE, px_y |-> py, px_x |-> px, unit |-> unit]
Raised == [raised |-> TRUE, px_y |-> One, px_x |-> One, unit |-> "none"]
NoCalib == [raised |-> FALSE, px_y |-> One, px_x |-> One, unit |-> "unset"]

\* One iteration of the key loop on the running (px_y, px_x).  key.lower()
\* is outside the try: a key without lower() raises out of the function.
\* Inside the try, float(dims[key]) is evaluated for the 'y' test first, so
\* a failing conversion leaves both sizes as they were.
ScanKey(e, st) ==
    IF st.raised THEN st
    ELSE IF ~e.key.str THEN [st EXCEPT !.raised = TRUE]
    ELSE LET kl == Lower(e.key.chars)
             hasY == Contains(<<"y">>, kl)
             hasX == Contains(<<"x">>, kl)
             f == PyFloat(e.val)
         IN  IF ~IsSizeKey(kl) \/ ~f.ok THEN st
             ELSE [raised |-> FALSE,
                   px_y |-> IF hasY THEN f.f ELSE st.px_y,
                   px_x |-> IF hasX THEN f.f ELSE st.px_x]

\* for key in dims: ...
RECURSIVE ScanKeys(_, _)
ScanKeys(items, st) ==
    IF items = <<>> THEN st
    ELSE ScanKeys(Tail(items), ScanKey(Head(items), st))

\* [v for v in dims.values() if isinstance(v, (int, float))]
RECURSIVE NumericVals(_)
NumericVals(items) ==
    IF items = <<>> THEN <<>>
    ELSE IF IsNumeric(Head(items).val)
         THEN <<Head(items).val>> \o NumericVals(Tail(items))
         ELSE NumericVals(Tail(items))

\* the condition under which the first two numeric values are taken
FallbackApplies(numeric_vals, py, px) == Len(numeric_vals) >= 2

\* mutant of FixZero: the trailing pass left out
FixZero_Missing(p) == p

\* the trailing pass: a size that is zero becomes 1.0 (a size is never None
\* here, and the comparison of a float with 0 does not raise)
FixZero(p) == IF EqZero(p) THEN One ELSE p

PostCondition(r) ==
    IF r.raised THEN r
    ELSE Returned(FixZero(r.px_y), FixZero(r.px_x), r.unit)

\* the isinstance(dims, dict) branch
DictBranch(items) ==
    LET scan == ScanKeys(items, [raised |-> FALSE, px_y |-> One, px_x |-> One])
        nv == NumericVals(items)
    IN  IF scan.raised THEN Raised
        ELSE IF FallbackApplies(nv, scan.px_y, scan.px_x)
             THEN LET f0 == PyFloat(nv[1])
                      f1 == PyFloat(nv[2])
                  IN  IF f0.ok /\ f1.ok
                      THEN Returned(f0.f, f1.f, UnitMicrometers)
                      ELSE Raised
             ELSE Returned(scan.px_y, scan.px_x, UnitPixels)

\* mutant of SelectIndices: the list read as (y, x, ...) instead of (z, y, x)
SelectIndices_NoZ(n) ==
    IF n >= 2 THEN <<1, 2>>
    ELSE IF n >= 1 THEN <<1, 1>>
    ELSE <<>>

\* which elements of the list give (px_y, px_x); <<>> for an empty list
SelectIndices(n) ==
    IF n >= 3 THEN <<2, 3>>
    ELSE IF n >= 1 THEN <<1, 1>>
    ELSE <<>>

\* the isinstance(dims, (list, tuple, np.ndarray)) branch, all in one try
ListBranch(items) ==
    LET idx == SelectIndices(Len(items))
    IN  IF idx = <<>> THEN Returned(One, One, UnitPixels)
        ELSE LET fy == PyFloat(items[idx[1]].val)
                 fx == PyFloat(items[idx[2]].val)
             IN  IF fy.ok /\ fx.ok
                 THEN Returned(fy.f, fx.f, UnitMicrometers)
                 ELSE Returned(One, One, UnitPixels)

\* the sizes and unit as they stand when the if/elif/else has run
BranchResult(d) ==
    CASE d.t = "dict" -> DictBranch(d.items)
      [] d.t = "list" -> ListBranch(d.items)
      [] OTHER        -> Returned(One, One, UnitPixels)

get_pixel_size_from_dims(d) == PostCondition(BranchResult(d))

\* mean_pixel_size = (px_x + px_y) / 2.0, in units of 1/10000
MeanPixelSize(px_x, px_y) ==
    IF px_x.nan \/ px_y.nan THEN NaN ELSE Fin((px_x.v + px_y.v) * 5)

----------------------------------------------------------------------------
(* format_sig. *)

Sig == 4

RECURSIVE Pow10(_)
Pow10(k) == IF k <= 0 THEN 1 ELSE 10 * Pow10(k - 1)

\* the number of decimal digits of n > 0
RECURSIVE NumDigits(_)
NumDigits(n) == IF n < 10 THEN 1 ELSE 1 + NumDigits(n \div 10)

Abs(n) == IF n < 0 THEN -n ELSE n

\* n rounded to sig significant decimal digits, ties to even: the number
\* that format(x, '.{sig}g') writes
RoundSig(n, sig) ==
    IF Abs(n) < Pow10(sig) THEN n
    ELSE LET p == Pow10(NumDigits(Abs(n)) - sig)
             q == Abs(n) \div p
             r == Abs(n) % p
             up == (2 * r > p) \/ (2 * r = p /\ q % 2 = 1)
             m == (IF up THEN q + 1 ELSE q) * p
         IN  IF n < 0 THEN -m ELSE m

\* format_sig(x): "nan" for NaN, else x to Sig significant digits.  The
\* string is represented by the number it denotes, in the unit of x.
format_sig(x) == IF x.nan THEN NaN ELSE Fin(RoundSig(x.v, Sig))

----------------------------------------------------------------------------
(* The measurements main takes from the external library. *)

SegIds == 1..MaxSid
Diameters == {4000, 5000, 6000, 12346}

\* (segment_id, diameter) as whole_anatomy_diameter returns it
Pair(sid, d) == [sid |-> sid, d |-> d]

DistinctSids(s) == \A i, j \in 1..Len(s) : i # j => s[i].sid # s[j].sid

\* the lists whole_anatomy_diameter may return: one pair per edge label
OutputDiameters ==
    { s \in SeqsUpTo({ Pair(sid, d) : sid \in SegIds, d \in Diameters }, MaxSegs) :
        DistinctSids(s) }

\* An edge label map, by the number of pixels that carry each label, which
\* is all main reads from it (np.count_nonzero(edge_labels == sid)).
LabelMapA == [sid \in SegIds |-> CASE sid = 1 -> 100 [] sid = 2 -> 50 [] sid = 3 -> 75 [] OTHER -> 0]
LabelMapB == [sid \in SegIds |-> CASE sid = 1 -> 12345 [] sid = 2 -> 0 [] sid = 3 -> 10001 [] OTHER -> 7]
EdgeLabelMaps == {LabelMapA, LabelMapB}

NetLengths == {225, 12355}
ImageShapes == {<<512, 256>>}
VesselDensities == {250}
BranchpointDensities == {12}

\* int(np.count_nonzero(edge_labels == sid))
CountLabel(edge_labels, sid) == edge_labels[sid]

RECURSIVE SumSeq(_)
SumSeq(s) == IF s = <<>> THEN 0 ELSE Head(s) + SumSeq(Tail(s))

\* the integer square root, by bisection on lo..hi
RECURSIVE ISqrtIn(_, _, _)
ISqrtIn(n, lo, hi) ==
    IF lo >= hi THEN lo
    ELSE LET mid == (lo + hi + 1) \div 2
         IN  IF mid * mid <= n THEN ISqrtIn(n, mid, hi) ELSE ISqrtIn(n, lo, mid - 1)

\* np.mean of finite values (unit 1/1000, to the resolution of the unit);
\* of an empty list numpy returns NaN
NpMean(ds) == IF ds = <<>> THEN NaN ELSE Fin(SumSeq(ds) \div Len(ds))

\* np.std (population), to the resolution of the unit; NaN of an empty list
NpStd(ds) ==
    IF ds = <<>> THEN NaN
    ELSE LET m == SumSeq(ds) \div Len(ds)
             sq == [i \in 1..Len(ds) |-> (ds[i] - m) * (ds[i] - m)]
             var == SumSeq(sq) \div Len(ds)
         IN  Fin(ISqrtIn(var, 0, 46340))

\* the guard of "if len(diameter_values) > 0"
HasDiameters(ds) == Len(ds) > 0

MeanDiameterPx(ds) == IF HasDiameters(ds) THEN NpMean(ds) ELSE Fin(0)
StdDiameterPx(ds) == IF HasDiameters(ds) THEN NpStd(ds) ELSE Fin(0)

\* [int(sid) for (sid, d) in output_diameters]; the ids are integers
IncludedSegments(od) == [i \in 1..Len(od) |-> od[i].sid]

\* [float(d) for (sid, d) in output_diameters], unit 1/1000
DiameterValues(od) == [i \in 1..Len(od) |-> od[i].d]

\* [int(np.count_nonzero(edge_labels == sid)) for sid in included_segments]
LengthsPixels(edge_labels, segs) == [i \in 1..Len(segs) |-> CountLabel(edge_labels, segs[i])]

Min(a, b) == IF a < b THEN a ELSE b

----------------------------------------------------------------------------
(* The two tables. *)

Row(metric, label, value, unit, suffix) ==
    [metric |-> metric, label |-> label, value |-> value, unit |-> unit, suffix |-> suffix]

\* the rows written to vessel_metrics2.csv after its header
MetricsRows(d, r, unit_name) ==
    << Row("Total Network Length", "skeleton pixels", format_sig(Fin(d.net_length)), "pixels", ""),
       Row("Total Network Length", "physical", format_sig(FMul(Fin(d.net_length), r.mean_pixel_size)), unit_name, "/px * pixels"),
       Row("Vessel Density", "", format_sig(Fin(d.vessel_density)), "ratio", ""),
       Row("Branchpoint Density", "", format_sig(Fin(d.bp_density)), "per unit area", ""),
       Row("Mean Diameter", "pixels", format_sig(r.mean_diameter_px), "pixels", ""),
       Row("Mean Diameter", unit_name, format_sig(r.mean_diameter_phys), unit_name, ""),
       Row("Std Diameter", "pixels", format_sig(r.std_diameter_px), "pixels", ""),
       Row("Std Diameter", unit_name, format_sig(r.std_diameter_phys), unit_name, ""),
       Row("Number of Vessels", "counted segments", format_sig(Fin(Len(d.diameter_values))), "count", ""),
       Row("Image Width", "", Fin(d.shape[2]), "pixels", ""),
       Row("Image Height", "", Fin(d.shape[1]), "pixels", "") >>

Col(name, unit_name) == [name |-> name, unit |-> unit_name]

\* the header of individual_vessels2.csv
VesselHeader(unit_name) ==
    << Col("Vessel_ID", ""), Col("Segment_ID", ""), Col("Length_pixels", ""),
       Col("Length_", unit_name), Col("Mean_Diameter_pixels", ""),
       Col("Mean_Diameter_", unit_name) >>

\* mutant of VesselRow: Vessel_ID counted from 0
VesselRow_ZeroBased(idx, seg_id, diam_px, length_px, mean_pixel_size) ==
    [ Vessel_ID |-> idx,
      Segment_ID |-> seg_id,
      Length_pixels |-> format_sig(Fin(length_px)),
      Length_phys |-> format_sig(FMul(Fin(length_px), mean_pixel_size)),
      Mean_Diameter_pixels |-> format_sig(Fin(diam_px)),
      Mean_Diameter_phys |-> format_sig(FMul(Fin(diam_px), mean_pixel_size)) ]

\* one row of individual_vessels2.csv, idx counted from 0 as enumerate does
VesselRow(idx, seg_id, diam_px, length_px, mean_pixel_size) ==
    [ Vessel_ID |-> idx + 1,
      Segment_ID |-> seg_id,
      Length_pixels |-> format_sig(Fin(length_px)),
      Length_phys |-> format_sig(FMul(Fin(length_px), mean_pixel_size)),
      Mean_Diameter_pixels |-> format_sig(Fin(diam_px)),
      Mean_Diameter_phys |-> format_sig(FMul(Fin(diam_px), mean_pixel_size)) ]

\* for idx, (seg_id, diam_px, length_px) in enumerate(zip(...)): writerow
VesselRows(segs, diams, lengths, mean_pixel_size) ==
    [ i \in 1..Min(Len(segs), Min(Len(diams), Len(lengths))) |->
        VesselRow(i - 1, segs[i], diams[i], lengths[i], mean_pixel_size) ]

----------------------------------------------------------------------------
(* main: the steps of the try block, in program order. *)

PcOrder ==
    << "Load", "Project", "WriteOriginal", "PreprocessSeg", "Segment", "WriteSeg",
       "Skeletonize", "WriteSkel", "Label", "Measure", "Normalize", "WriteOverlay",
       "WriteMetrics", "WriteVessels", "Done" >>

PcIndex(p) == CHOOSE i \in 1..Len(PcOrder) : PcOrder[i] = p

\* mutant of NextPc: the overlay is written straight after the measurement
NextPc_SkipNormalize(p) ==
    IF p = "Measure" THEN "WriteOverlay" ELSE PcOrder[PcIndex(p) + 1]

\* the statement that follows step p when p does not raise
NextPc(p) == PcOrder[PcIndex(p) + 1]

\* the file names, in the order main writes them
ArtifactOrder ==
    << "original_projection_fixed_test3.png", "vessel_segmentation18000_fixed_test3.png",
       "vessel_skeleton18000_fixed_test3.png", "vessel_segmentation_overlay_test2.png",
       "vessel_metrics2.csv", "individual_vessels2.csv" >>

\* the file each writing step writes
ArtifactOf(p) ==
    CASE p = "WriteOriginal" -> ArtifactOrder[1]
      [] p = "WriteSeg"      -> ArtifactOrder[2]
      [] p = "WriteSkel"     -> ArtifactOrder[3]
      [] p = "WriteOverlay"  -> ArtifactOrder[4]
      [] p = "WriteMetrics"  -> ArtifactOrder[5]
      [] p = "WriteVessels"  -> ArtifactOrder[6]

File(name, complete) == [name |-> name, complete |-> complete]

\* the metadata preprocess_czi may hand back
LoadDims ==
    { Dict(<<Entry(KeyPhysicalSizeY, Val("num", 500)), Entry(KeyPhysicalSizeX, Val("num", 500))>>),
      Dict(<<Entry(NonStrKey, Val("num", 500))>>),
      List(<<Elem(Val("num", 500)), Elem(Val("num", 300)), Elem(Val("num", 300))>>),
      List(<<Elem(Val("num", 0)), Elem(Val("num", 500)), Elem(Val("num", -500))>>),
      List(<<Elem(Val("nan", 0))>>),
      Other }

NoData ==
    [ shape |-> <<0, 0>>, edge_labels |-> [sid \in SegIds |-> 0],
      output_diameters |-> <<>>, included_segments |-> <<>>, diameter_values |-> <<>>,
      lengths_pixels |-> <<>>, net_length |-> 0, vessel_density |-> 0, bp_density |-> 0 ]

NoReport ==
    [ mean_diameter_px |-> Fin(0), std_diameter_px |-> Fin(0), mean_pixel_size |-> Fin(0),
      mean_diameter_phys |-> Fin(0), std_diameter_phys |-> Fin(0) ]

NoTables == [ metrics |-> <<>>, vessel_header |-> <<>>, vessels |-> <<>> ]

Init ==
    /\ pc = "Load"
    /\ dims = Other
    /\ calib = NoCalib
    /\ measured = NoData
    /\ report = NoReport
    /\ artifacts = <<>>
    /\ tables = NoTables
    /\ executed = <<>>
    /\ exit_status = <<>>

\* mutant of Fail: the handler reports the error and returns
Fail_NoExitCode ==
    /\ pc' = "Failed"
    /\ exit_status' = <<0>>

\* except Exception: ...; sys.exit(1)
Fail ==
    /\ pc' = "Failed"
    /\ exit_status' = <<1>>

\* step p completed; after the last one main returns and the process exits 0
Advance(p) ==
    /\ pc' = NextPc(p)
    /\ executed' = Append(executed, p)
    /\ exit_status' = IF NextPc(p) = "Done" THEN <<0>> ELSE exit_status

\* a call into the external library that returns nothing main inspects
ExternalCall(p) ==
    /\ pc = p
    /\ \/ /\ Advance(p)
          /\ UNCHANGED <<dims, calib, measured, report, artifacts, tables>>
       \/ /\ Fail
          /\ UNCHANGED <<dims, calib, measured, report, artifacts, tables, executed>>

\* mutant of WriteFails: the handler removes what the run has written
WriteFails_Cleanup(p) ==
    /\ pc' = "Failed"
    /\ exit_status' = <<1>>
    /\ artifacts' = <<>>
    /\ UNCHANGED <<dims, calib, measured, report, tables, executed>>

\* an image or table write: it completes, or it raises and leaves no file
\* or an incomplete one
WriteFails(p) ==
    /\ Fail
    /\ \/ artifacts' = artifacts
       \/ artifacts' = Append(artifacts, File(ArtifactOf(p), FALSE))
    /\ UNCHANGED <<dims, calib, measured, report, tables, executed>>

WriteImage(p) ==
    /\ pc = p
    /\ \/ /\ Advance(p)
          /\ artifacts' = Append(artifacts, File(ArtifactOf(p), TRUE))
          /\ UNCHANGED <<dims, calib, measured, report, tables>>
       \/ WriteFails(p)

\* vm.preprocess_czi, get_pixel_size_from_dims(dims), volume.astype
Load ==
    /\ pc = "Load"
    /\ \/ \E d \in LoadDims :
            /\ dims' = d
            /\ calib' = get_pixel_size_from_dims(d)
            /\ IF get_pixel_size_from_dims(d).raised
               THEN Fail /\ UNCHANGED executed
               ELSE Advance("Load")
            /\ UNCHANGED <<measured, report, artifacts, tables>>
       \/ /\ Fail
          /\ UNCHANGED <<dims, calib, measured, report, artifacts, tables, executed>>

\* np.max(volume, axis=0)
Project ==
    /\ pc = "Project"
    /\ \/ \E sh \in ImageShapes :
            /\ measured' = [measured EXCEPT !.shape = sh]
            /\ Advance("Project")
            /\ UNCHANGED <<dims, calib, report, artifacts, tables>>
       \/ /\ Fail
          /\ UNCHANGED <<dims, calib, measured, report, artifacts, tables, executed>>

WriteOriginal == WriteImage("WriteOriginal")
PreprocessSeg == ExternalCall("PreprocessSeg")
Segment == ExternalCall("Segment")
WriteSeg == WriteImage("WriteSeg")
Skeletonize == ExternalCall("Skeletonize")
WriteSkel == WriteImage("WriteSkel")

\* vm.cv2.connectedComponents(edges)
Label ==
    /\ pc = "Label"
    /\ \/ \E el \in EdgeLabelMaps :
            /\ measured' = [measured EXCEPT !.edge_labels = el]
            /\ Advance("Label")
            /\ UNCHANGED <<dims, calib, report, artifacts, tables>>
       \/ /\ Fail
          /\ UNCHANGED <<dims, calib, measured, report, artifacts, tables, executed>>

\* whole_anatomy_diameter, the three lists, network_length, vessel_density,
\* branchpoint_density
Measure ==
    /\ pc = "Measure"
    /\ \/ \E od \in OutputDiameters, nl \in NetLengths, vd \in VesselDensities,
             bd \in BranchpointDensities :
            /\ measured' =
                 [measured EXCEPT
                    !.output_diameters = od,
                    !.included_segments = IncludedSegments(od),
                    !.diameter_values = DiameterValues(od),
                    !.lengths_pixels = LengthsPixels(measured.edge_labels, IncludedSegments(od)),
                    !.net_length = nl,
                    !.vessel_density = vd,
                    !.bp_density = bd]
            /\ Advance("Measure")
            /\ UNCHANGED <<dims, calib, report, artifacts, tables>>
       \/ /\ Fail
          /\ UNCHANGED <<dims, calib, measured, report, artifacts, tables, executed>>

\* mean and standard deviation of the diameters, mean_pixel_size and the
\* physical values; mean_diameter_phys is in units of 1/10000000
Normalized(ds, c) ==
    LET mps == MeanPixelSize(c.px_x, c.px_y)
    IN  [ mean_diameter_px |-> MeanDiameterPx(ds),
          std_diameter_px |-> StdDiameterPx(ds),
          mean_pixel_size |-> mps,
          mean_diameter_phys |-> FMul(MeanDiameterPx(ds), mps),
          std_diameter_phys |-> FMul(StdDiameterPx(ds), mps) ]

Normalize ==
    /\ pc = "Normalize"
    /\ report' = Normalized(measured.diameter_values, calib)
    /\ Advance("Normalize")
    /\ UNCHANGED <<dims, calib, measured, artifacts, tables>>

WriteOverlay == WriteImage("WriteOverlay")

WriteMetrics ==
    /\ pc = "WriteMetrics"
    /\ \/ /\ Advance("WriteMetrics")
          /\ artifacts' = Append(artifacts, File(ArtifactOf("WriteMetrics"), TRUE))
          /\ tables' = [tables EXCEPT !.metrics = MetricsRows(measured, report, calib.unit)]
          /\ UNCHANGED <<dims, calib, measured, report>>
       \/ WriteFails("WriteMetrics")

WriteVessels ==
    /\ pc = "WriteVessels"
    /\ \/ /\ Advance("WriteVessels")
          /\ artifacts' = Append(artifacts, File(ArtifactOf("WriteVessels"), TRUE))
          /\ tables' = [tables EXCEPT
                          !.vessel_header = VesselHeader(calib.unit),
                          !.vessels = VesselRows(measured.included_segments,
                                                 measured.diameter_values,
                                                 measured.lengths_pixels,
                                                 report.mean_pixel_size)]
          /\ UNCHANGED <<dims, calib, measured, report>>
       \/ WriteFails("WriteVessels")

Next ==
    \/ Load
    \/ Project
    \/ WriteOriginal
    \/ PreprocessSeg
    \/ Segment
    \/ WriteSeg
    \/ Skeletonize
    \/ WriteSkel
    \/ Label
    \/ Measure
    \/ Normalize
    \/ WriteOverlay
    \/ WriteMetrics
    \/ WriteVessels

Spec == Init /\ [][Next]_vars

----------------------------------------------------------------------------
(* The resolver on its own: one call on any metadata of the model. *)

InitResolver ==
    /\ pc = "call"
    /\ dims \in AllDims
    /\ calib = NoCalib
    /\ measured = NoData
    /\ report = NoReport
    /\ artifacts = <<>>
    /\ tables = NoTables
    /\ executed = <<>>
    /\ exit_status = <<>>

ResolverCall ==
    /\ pc = "call"
    /\ calib' = get_pixel_size_from_dims(dims)
    /\ pc' = IF get_pixel_size_from_dims(dims).raised THEN "raised" ELSE "returned"
    /\ UNCHANGED <<dims, measured, report, artifacts, tables, executed, exit_status>>

NextResolver == ResolverCall

SpecResolver == InitResolver /\ [][NextResolver]_vars

----------------------------------------------------------------------------
(* Properties. *)

IsPrefix(s, t) == Len(s) <= Len(t) /\ SubSeq(t, 1, Len(s)) = s

Positive(x) == ~x.nan /\ x.v > 0

InSeq(x, s) == \E i \in 1..Len(s) : s[i] = x

\* C1: the resolver is total: whatever the metadata, the call returns a
\* triple and never raises.
C1_ResolverNeverRaises == pc # "raised"

\* C2: whenever the resolver has returned, px_y and px_x are strictly
\* positive, and the mean_pixel_size the pipeline computes from them is
\* strictly positive.
C2_SizesStrictlyPositive ==
    /\ InSeq("Load", executed) => Positive(calib.px_y) /\ Positive(calib.px_x)
    /\ InSeq("Normalize", executed) => Positive(report.mean_pixel_size)

\* the value of the entry with key k (a mapping that has the key)
ValueAt(items, k) == items[CHOOSE i \in 1..Len(items) : items[i].key = k].val

HasKey(items, k) == \E i \in 1..Len(items) : items[i].key = k

NonZeroNumber(val) == val.k = "num" /\ val.v # 0

\* C3: for a mapping, the first-two-numeric-values fallback is applied only
\* when the key scan left both sizes at their default: if the scan assigned
\* a size the scanned values are returned, and a mapping with PhysicalSizeY
\* = a and PhysicalSizeX = b (non-zero numbers) resolves to px_y = a and
\* px_x = b, in either key order.
C3_FallbackOnlyWhenScanFoundNothing ==
    (pc = "returned" /\ dims.t = "dict") =>
        LET scan == ScanKeys(dims.items, [raised |-> FALSE, px_y |-> One, px_x |-> One])
        IN  /\ (scan.px_y # One \/ scan.px_x # One) =>
                   /\ calib.px_y = FixZero(scan.px_y)
                   /\ calib.px_x = FixZero(scan.px_x)
            /\ ( /\ HasKey(dims.items, KeyPhysicalSizeY)
                 /\ HasKey(dims.items, KeyPhysicalSizeX)
                 /\ NonZeroNumber(ValueAt(dims.items, KeyPhysicalSizeY))
                 /\ NonZeroNumber(ValueAt(dims.items, KeyPhysicalSizeX)) ) =>
                   /\ calib.px_y = Fin(ValueAt(dims.items, KeyPhysicalSizeY).v)
                   /\ calib.px_x = Fin(ValueAt(dims.items, KeyPhysicalSizeX).v)

\* the call is over, whichever way
ResolverDone == pc \in {"returned", "raised"}

\* a non-empty list whose elements all pass isinstance(v, (int, float))
NumericList(d) ==
    /\ d.t = "list"
    /\ Len(d.items) >= 1
    /\ \A i \in 1..Len(d.items) : IsNumeric(d.items[i].val)

\* a non-empty list of ints and floats within the float range
FloatList(d) ==
    /\ d.t = "list"
    /\ Len(d.items) >= 1
    /\ \A i \in 1..Len(d.items) : d.items[i].val.k \in {"num", "nan"}

\* the element the index-selection rule names for px_y and for px_x
RuleY(items) == IF Len(items) >= 3 THEN items[2].val ELSE items[1].val
RuleX(items) == IF Len(items) >= 3 THEN items[3].val ELSE items[1].val

AsFloat(val) == IF val.k = "nan" THEN NaN ELSE Fin(val.v)

\* C4 as stated: for every non-empty list of numeric values the resolver
\* returns "micrometers" and (px_y, px_x) = (s[1], s[2]) when len(s) >= 3,
\* px_y = px_x = s[0] when len(s) is 2 or 1.
C4_IndexRuleAsStated ==
    (ResolverDone /\ NumericList(dims)) =>
        /\ pc = "returned"
        /\ calib.unit = UnitMicrometers
        /\ calib.px_y = AsFloat(RuleY(dims.items))
        /\ calib.px_x = AsFloat(RuleX(dims.items))

\* C4 amended: for every non-empty list of ints and floats within the float
\* range the resolver returns "micrometers" and the sizes the index rule
\* selects, except that a selected element equal to zero is returned as 1.0.
C4_IndexRuleZeroBecomesOne ==
    (ResolverDone /\ FloatList(dims)) =>
        /\ pc = "returned"
        /\ calib.unit = UnitMicrometers
        /\ calib.px_y = (IF RuleY(dims.items) = Val("num", 0) THEN One ELSE AsFloat(RuleY(dims.items)))
        /\ calib.px_x = (IF RuleX(dims.items) = Val("num", 0) THEN One ELSE AsFloat(RuleX(dims.items)))

\* a list of three numbers whose y spacing is zero has been resolved
C4_Witness ==
    /\ pc = "returned"
    /\ FloatList(dims)
    /\ Len(dims.items) = 3
    /\ dims.items[2].val = Val("num", 0)
    /\ dims.items[3].val = Val("num", 300)
    /\ calib = Returned(One, Fin(300), UnitMicrometers)

\* the steps that are stages of the pipeline, and those that write a file
StageOrder ==
    << "Load", "Project", "PreprocessSeg", "Segment", "Skeletonize", "Label",
       "Measure", "Normalize" >>

WriteSteps ==
    { "WriteOriginal", "WriteSeg", "WriteSkel", "WriteOverlay", "WriteMetrics",
      "WriteVessels" }

IsStage(p) == p \notin WriteSteps

\* the stages run so far, in the order run
StagesRun == SelectSeq(executed, IsStage)

\* the names of the files that exist, in the order created
ArtifactNames == [i \in 1..Len(artifacts) |-> artifacts[i].name]

\* C5 as stated: the stages run in the one fixed order, each at most once,
\* and no artifact is written before Normalize has completed.
C5_NoArtifactBeforeNormalize ==
    /\ IsPrefix(StagesRun, StageOrder)
    /\ artifacts # <<>> => InSeq("Normalize", executed)

\* C5 amended: the stages run in the one fixed order, each at most once and
\* none skipped; the projection, segmentation and skeleton images are
\* written as soon as Project, Segment and Skeletonize have completed, and
\* only the overlay image and the two tables are written after Normalize.
C5_FixedOrderWritesInterleaved ==
    /\ IsPrefix(StagesRun, StageOrder)
    /\ IsPrefix(executed, PcOrder)
    /\ pc \in {PcOrder[Len(executed) + 1], "Failed"}
    /\ \A i \in 1..Len(artifacts) :
         /\ i = 1 => InSeq("Project", executed)
         /\ i = 2 => InSeq("Segment", executed)
         /\ i = 3 => InSeq("Skeletonize", executed)
         /\ i >= 4 => InSeq("Normalize", executed)
    /\ InSeq("PreprocessSeg", executed) => Len(artifacts) >= 1
    /\ InSeq("Skeletonize", executed) => Len(artifacts) >= 2
    /\ InSeq("Label", executed) => Len(artifacts) >= 3

\* a whole run: every stage ran and the six files are there
C5_Witness ==
    /\ pc = "Done"
    /\ StagesRun = StageOrder
    /\ Len(artifacts) = 6

AllComplete == \A i \in 1..Len(artifacts) : artifacts[i].complete

\* C6: a raise in any step ends the run in Failed, where nothing further
\* runs and the exit status is 1; the exit status is 0 only when every step
\* completed and all six artifacts were written.
C6_FailFast ==
    /\ pc = "Failed" => exit_status = <<1>> /\ ~ENABLED Next
    /\ exit_status = <<1>> => pc = "Failed" /\ Len(executed) < Len(PcOrder) - 1
    /\ exit_status = <<0>> =>
         /\ pc = "Done"
         /\ executed = SubSeq(PcOrder, 1, Len(PcOrder) - 1)
         /\ ArtifactNames = ArtifactOrder
         /\ AllComplete
    /\ pc = "Done" => exit_status = <<0>> /\ ~ENABLED Next
    /\ pc \notin {"Done", "Failed"} => exit_status = <<>>

\* a run that failed in the middle, after the segmentation image
C6_Witness ==
    /\ pc = "Failed"
    /\ exit_status = <<1>>
    /\ executed = SubSeq(PcOrder, 1, 6)
    /\ Len(artifacts) = 2

\* C7: the files written are at all times a prefix of the fixed order, also
\* in Failed, and a step never removes or replaces one already written.
C7_ArtifactsPrefixAndGrow ==
    /\ [](IsPrefix(ArtifactNames, ArtifactOrder))
    /\ [][IsPrefix(artifacts, artifacts')]_vars

\* a failed run that keeps the four images it wrote
C7_Witness ==
    /\ pc = "Failed"
    /\ Len(artifacts) = 4
    /\ AllComplete

\* the two tables are on disk
TablesWritten == InSeq("WriteVessels", executed)

\* C8 as stated: one row per (segment_id, diameter) pair in the order
\* returned; row i has Vessel_ID i, the i-th segment id and diameter, the
\* pixel count of that label, and both physical values equal to the pixel
\* value times mean_pixel_size.
C8_RowsAsStated ==
    TablesWritten =>
        LET od == measured.output_diameters
            rows == tables.vessels
            mps == report.mean_pixel_size
        IN  /\ Len(rows) = Len(od)
            /\ \A i \in 1..Len(od) :
                 /\ rows[i].Vessel_ID = i
                 /\ rows[i].Segment_ID = od[i].sid
                 /\ rows[i].Length_pixels = Fin(measured.edge_labels[od[i].sid])
                 /\ rows[i].Length_phys = FMul(Fin(measured.edge_labels[od[i].sid]), mps)
                 /\ rows[i].Mean_Diameter_pixels = Fin(od[i].d)
                 /\ rows[i].Mean_Diameter_phys = FMul(Fin(od[i].d), mps)

\* C8 amended: as stated, except that the pixel length, the diameter and
\* the two physical values are each written rounded to 4 significant
\* digits.
C8_RowsRoundedToFourDigits ==
    TablesWritten =>
        LET od == measured.output_diameters
            rows == tables.vessels
            mps == report.mean_pixel_size
        IN  /\ Len(rows) = Len(od)
            /\ \A i \in 1..Len(od) :
                 /\ rows[i].Vessel_ID = i
                 /\ rows[i].Segment_ID = od[i].sid
                 /\ rows[i].Length_pixels = format_sig(Fin(measured.edge_labels[od[i].sid]))
                 /\ rows[i].Length_phys = format_sig(FMul(Fin(measured.edge_labels[od[i].sid]), mps))
                 /\ rows[i].Mean_Diameter_pixels = format_sig(Fin(od[i].d))
                 /\ rows[i].Mean_Diameter_phys = format_sig(FMul(Fin(od[i].d), mps))

\* segments [(1, 4.0), (2, 6.0), (3, 5.0)] of 100, 50 and 75 pixels under
\* the calibration (0.5, 0.5): the row of segment 2 reads 50, 25.0, 6.0, 3.0
C8_Witness ==
    /\ pc = "Done"
    /\ measured.output_diameters = <<Pair(1, 4000), Pair(2, 6000), Pair(3, 5000)>>
    /\ measured.lengths_pixels = <<100, 50, 75>>
    /\ calib.px_y = Fin(500) /\ calib.px_x = Fin(500)
    /\ Len(tables.vessels) = 3
    /\ tables.vessels[2] =
         [ Vessel_ID |-> 2, Segment_ID |-> 2, Length_pixels |-> Fin(50),
           Length_phys |-> Fin(250000), Mean_Diameter_pixels |-> Fin(6000),
           Mean_Diameter_phys |-> Fin(30000000) ]

\* C9: with zero segments the mean and the standard deviation of the
\* diameter are written as 0.0, in pixels and in physical units, never NaN,
\* and the per-segment table has its header and no data row.
C9_ZeroSegmentsGiveZeros ==
    (TablesWritten /\ measured.output_diameters = <<>>) =>
        /\ \A i \in 5..8 : tables.metrics[i].value = Fin(0)
        /\ Len(tables.vessel_header) = 6
        /\ tables.vessels = <<>>

\* C10: neither returned size is zero, and a size the branches resolved as
\* zero is returned as 1.0.
C10_ZeroSizeBecomesOne ==
    pc = "returned" =>
        /\ ~EqZero(calib.px_y)
        /\ ~EqZero(calib.px_x)
        /\ EqZero(BranchResult(dims).px_y) => calib.px_y = One
        /\ EqZero(BranchResult(dims).px_x) => calib.px_x = One

\* a mapping whose two numeric values are zero has been resolved to 1.0
C10_Witness ==
    /\ pc = "returned"
    /\ dims.t = "dict"
    /\ Len(dims.items) = 2
    /\ \A i \in 1..2 : dims.items[i].val = Val("num", 0)
    /\ calib = Returned(One, One, UnitMicrometers)

====
